---------------------------- MODULE Spec2Model ----------------------------
(***************************************************************************)
(* EdgeChain IoT configuration header (arduino/edgechain_iot/config.h).    *)
(*                                                                         *)
(* The header is a list of preprocessor directives: an include guard       *)
(* (#ifndef / #define EDGECHAIN_CONFIG_H / #endif) around eight object-like *)
(* macro definitions.  The model is the preprocessor's view of one         *)
(* translation unit: the macro table, the position inside the header while *)
(* it is being processed, whether the current conditional group is being   *)
(* skipped, and the last expansion a consuming module obtained.            *)
(*                                                                         *)
(* String literals are sequences of one-character strings, so that their   *)
(* length and every position can be inspected.                             *)
(***************************************************************************)
EXTENDS Integers, Sequences, FiniteSets

\* How many times one translation unit includes the header (model bound).
MaxIncludes == 3

----------------------------------------------------------------------------
\* The values written in the header.

\* config.h:11  #define BLE_SERVICE_UUID "12345678-1234-5678-1234-56789abcdef0"
BLE_SERVICE_UUID_Truncated ==
    << "1", "2", "3", "4", "5", "6", "7", "8", "-", "1", "2", "3",
       "4", "-", "5", "6", "7", "8", "-", "1", "2", "3", "4", "-",
       "5", "6", "7", "8", "9", "a", "b", "c", "d", "e", "f" >>

BLE_SERVICE_UUID ==
    << "1", "2", "3", "4", "5", "6", "7", "8", "-", "1", "2", "3",
       "4", "-", "5", "6", "7", "8", "-", "1", "2", "3", "4", "-",
       "5", "6", "7", "8", "9", "a", "b", "c", "d", "e", "f", "0" >>

\* config.h:12  #define DATA_CHAR_UUID "87654321-4321-8765-4321-fedcba987654"
DATA_CHAR_UUID_Copied == BLE_SERVICE_UUID

DATA_CHAR_UUID ==
    << "8", "7", "6", "5", "4", "3", "2", "1", "-", "4", "3", "2",
       "1", "-", "8", "7", "6", "5", "-", "4", "3", "2", "1", "-",
       "f", "e", "d", "c", "b", "a", "9", "8", "7", "6", "5", "4" >>

\* config.h:15  #define DEVICE_ID "EDGECHAIN_DEMO_001"
DEVICE_ID ==
    << "E", "D", "G", "E", "C", "H", "A", "I", "N", "_", "D", "E",
       "M", "O", "_", "0", "0", "1" >>

\* config.h:16  #define BLE_LOCAL_NAME "EdgeChain-Demo"
BLE_LOCAL_NAME ==
    << "E", "d", "g", "e", "C", "h", "a", "i", "n", "-", "D", "e",
       "m", "o" >>

\* config.h:19  #define READING_INTERVAL_MS 5000
READING_INTERVAL_MS_Zero == 5000 - 5000

READING_INTERVAL_MS == 5000

\* config.h:20  #define BAUD_RATE 115200
BAUD_RATE_Typo == 115200 - 200

BAUD_RATE == 115200

\* config.h:23  #define JSON_BUFFER_SIZE 64
JSON_BUFFER_SIZE_Small == 64 \div 4

JSON_BUFFER_SIZE == 64

\* config.h:24  #define TX_PAYLOAD_MAX_SIZE 256
TX_PAYLOAD_MAX_SIZE_Small == 256 \div 8

TX_PAYLOAD_MAX_SIZE == 256

----------------------------------------------------------------------------
\* Macro names and replacement lists.

GuardName == "EDGECHAIN_CONFIG_H"

UuidNames == {"BLE_SERVICE_UUID", "DATA_CHAR_UUID"}

IdentityNames == {"DEVICE_ID", "BLE_LOCAL_NAME"}

IntNames == {"READING_INTERVAL_MS", "BAUD_RATE", "JSON_BUFFER_SIZE",
             "TX_PAYLOAD_MAX_SIZE"}

ConstNames == UuidNames \cup IdentityNames \cup IntNames

AllNames == ConstNames \cup {GuardName}

\* A replacement list: a string literal, an integer literal, or nothing
\* (#define EDGECHAIN_CONFIG_H).  "undef" marks a name the table lacks.
StrLit(cs) == [kind |-> "str", chars |-> cs, num |-> 0]

IntLit(n) == [kind |-> "int", chars |-> << >>, num |-> n]

EmptyBody == [kind |-> "empty", chars |-> << >>, num |-> 0]

Undefined == [kind |-> "undef", chars |-> << >>, num |-> 0]

\* What a reference to an undefined name is left as: the identifier itself,
\* which is not a value (the consuming code does not compile).
Unexpanded == [kind |-> "ident", chars |-> << >>, num |-> 0]

Ifndef(ln, n) == [line |-> ln, op |-> "ifndef", name |-> n, value |-> Undefined]

Def(ln, n, v) == [line |-> ln, op |-> "define", name |-> n, value |-> v]

EndifAt(ln) == [line |-> ln, op |-> "endif", name |-> GuardName, value |-> Undefined]

\* A header whose last definition repeats the name of the one before it.
HeaderRedefines ==
    << Ifndef(7, GuardName),
       Def(8, GuardName, EmptyBody),
       Def(11, "BLE_SERVICE_UUID", StrLit(BLE_SERVICE_UUID)),
       Def(12, "DATA_CHAR_UUID", StrLit(DATA_CHAR_UUID)),
       Def(15, "DEVICE_ID", StrLit(DEVICE_ID)),
       Def(16, "BLE_LOCAL_NAME", StrLit(BLE_LOCAL_NAME)),
       Def(19, "READING_INTERVAL_MS", IntLit(READING_INTERVAL_MS)),
       Def(20, "BAUD_RATE", IntLit(BAUD_RATE)),
       Def(23, "JSON_BUFFER_SIZE", IntLit(JSON_BUFFER_SIZE)),
       Def(24, "JSON_BUFFER_SIZE", IntLit(TX_PAYLOAD_MAX_SIZE)),
       EndifAt(26) >>

\* The directives of config.h, in file order, each with its line.
Header ==
    << Ifndef(7, GuardName),
       Def(8, GuardName, EmptyBody),
       Def(11, "BLE_SERVICE_UUID", StrLit(BLE_SERVICE_UUID)),
       Def(12, "DATA_CHAR_UUID", StrLit(DATA_CHAR_UUID)),
       Def(15, "DEVICE_ID", StrLit(DEVICE_ID)),
       Def(16, "BLE_LOCAL_NAME", StrLit(BLE_LOCAL_NAME)),
       Def(19, "READING_INTERVAL_MS", IntLit(READING_INTERVAL_MS)),
       Def(20, "BAUD_RATE", IntLit(BAUD_RATE)),
       Def(23, "JSON_BUFFER_SIZE", IntLit(JSON_BUFFER_SIZE)),
       Def(24, "TX_PAYLOAD_MAX_SIZE", IntLit(TX_PAYLOAD_MAX_SIZE)),
       EndifAt(26) >>

\* The value the header's text gives a name: that of its first definition.
RECURSIVE FirstDef(_, _)
FirstDef(n, i) ==
    IF i > Len(Header) THEN Undefined
    ELSE IF Header[i].op = "define" /\ Header[i].name = n THEN Header[i].value
    ELSE FirstDef(n, i + 1)

ConfigValue(n) == FirstDef(n, 1)

----------------------------------------------------------------------------
\* Preprocessor semantics.

\* An #ifdef in place of the #ifndef: the group is skipped when the name is
\* not yet defined.
SkipGroupIfdef(table, n) == table[n].kind = "undef"

\* No include guard: the group is never skipped.
SkipGroupNever(table, n) == FALSE

\* #ifndef n: the group that follows is skipped when n is already defined.
SkipGroup(table, n) == table[n].kind # "undef"

\* #define n v: the table maps n to v from now on.
DefineMacro(table, n, v) == [table EXCEPT ![n] = v]

\* A reference to n in consuming code: its replacement list when n is
\* defined, the bare identifier otherwise.
Expand(table, n) ==
    IF table[n].kind = "undef" THEN Unexpanded ELSE table[n]

----------------------------------------------------------------------------
VARIABLES
    pc,        \* 0: outside the header; i: about to process Header[i]
    skip,      \* TRUE inside a conditional group that is being skipped
    macros,    \* the macro table: name -> replacement list
    defcount,  \* name -> number of #define directives executed for it
    incl,      \* completed inclusions of the header
    once,      \* the macro table as the first inclusion left it
    last       \* the last reference a consuming module made, and its result

vars == << pc, skip, macros, defcount, incl, once, last >>

NoLookup == [name |-> "none", result |-> Undefined]

Init ==
    /\ pc = 0
    /\ skip = FALSE
    /\ macros = [n \in AllNames |-> Undefined]
    /\ defcount = [n \in AllNames |-> 0]
    /\ incl = 0
    /\ once = [n \in AllNames |-> Undefined]
    /\ last = NoLookup

\* #include "config.h" in the translation unit.
Include ==
    /\ pc = 0
    /\ incl < MaxIncludes
    /\ pc' = 1
    /\ UNCHANGED << skip, macros, defcount, incl, once, last >>

\* Line 7: #ifndef EDGECHAIN_CONFIG_H
IfndefStep ==
    /\ pc > 0
    /\ Header[pc].op = "ifndef"
    /\ skip' = SkipGroup(macros, Header[pc].name)
    /\ pc' = pc + 1
    /\ UNCHANGED << macros, defcount, incl, once, last >>

\* Lines 8, 11, 12, 15, 16, 19, 20, 23, 24: #define name value
DefineStep ==
    /\ pc > 0
    /\ Header[pc].op = "define"
    /\ IF skip
         THEN UNCHANGED << macros, defcount >>
         ELSE /\ macros' = DefineMacro(macros, Header[pc].name, Header[pc].value)
              /\ defcount' = [defcount EXCEPT ![Header[pc].name] = @ + 1]
    /\ pc' = pc + 1
    /\ UNCHANGED << skip, incl, once, last >>

\* Line 26: #endif, the last line of the file; the inclusion is complete.
EndifStep ==
    /\ pc > 0
    /\ Header[pc].op = "endif"
    /\ skip' = FALSE
    /\ pc' = IF pc = Len(Header) THEN 0 ELSE pc + 1
    /\ incl' = IF pc = Len(Header) THEN incl + 1 ELSE incl
    /\ once' = IF pc = Len(Header) /\ incl = 0 THEN macros ELSE once
    /\ UNCHANGED << macros, defcount, last >>

\* A consuming module, after its #include, refers to one of the constants.
Lookup(n) ==
    /\ pc = 0
    /\ incl >= 1
    /\ last' = [name |-> n, result |-> Expand(macros, n)]
    /\ UNCHANGED << pc, skip, macros, defcount, incl, once >>

Next ==
    \/ Include
    \/ IfndefStep
    \/ DefineStep
    \/ EndifStep
    \/ \E n \in ConstNames : Lookup(n)

Spec == Init /\ [][Next]_vars

----------------------------------------------------------------------------
\* Helpers of the properties.

Defined(n) == macros[n].kind # "undef"

HexDigits == {"0", "1", "2", "3", "4", "5", "6", "7", "8", "9",
              "a", "b", "c", "d", "e", "f",
              "A", "B", "C", "D", "E", "F"}

HyphenPositions == {9, 14, 19, 24}

IsCanonicalUuid(cs) ==
    /\ Len(cs) = 36
    /\ \A i \in 1..Len(cs) :
          IF i \in HyphenPositions THEN cs[i] = "-" ELSE cs[i] \in HexDigits

StandardBaudRates == {300, 1200, 2400, 4800, 9600, 19200, 38400, 57600, 115200}

HeaderDone == pc = 0 /\ incl >= 1

----------------------------------------------------------------------------
\* C1: both UUID constants, once defined, are string literals of exactly 36
\* characters in canonical 8-4-4-4-12 form: a hyphen at positions 9, 14, 19
\* and 24 (1-based) and a hexadecimal digit at every other position.
UuidsAreCanonical ==
    \A n \in UuidNames :
        Defined(n) => /\ macros[n].kind = "str"
                      /\ IsCanonicalUuid(macros[n].chars)

\* A consuming module has obtained one of the two UUID strings.
UuidLookedUp ==
    /\ HeaderDone
    /\ last.name \in UuidNames
    /\ last.result.kind = "str"
    /\ Len(last.result.chars) = 36

\* C2: the service UUID and the characteristic UUID are distinct values.
UuidsAreDistinct ==
    (Defined("BLE_SERVICE_UUID") /\ Defined("DATA_CHAR_UUID"))
        => macros["BLE_SERVICE_UUID"] # macros["DATA_CHAR_UUID"]

\* The first inclusion is complete and both UUIDs are in the table.
BothUuidsDefined ==
    /\ pc = 0
    /\ incl = 1
    /\ Defined("BLE_SERVICE_UUID")
    /\ Defined("DATA_CHAR_UUID")

\* C3: every value of the table is immutable: whatever step is taken (a
\* lookup, a further inclusion, any directive), a constant that is defined
\* keeps its value, and that value is the one the header defines it with.
ConstantsNeverChange ==
    [][\A n \in ConstNames :
          Defined(n) => /\ macros'[n] = macros[n]
                        /\ macros'[n] = ConfigValue(n)]_vars

\* Lookups have been made and the header has been included again since, with
\* all eight constants in the table.
LookedUpAndReincluded ==
    /\ incl >= 2
    /\ last.name \in ConstNames
    /\ \A n \in ConstNames : Defined(n)

\* C4: both buffer capacities are positive and TX_PAYLOAD_MAX_SIZE is at
\* least JSON_BUFFER_SIZE.
BufferSizesOrdered ==
    (Defined("JSON_BUFFER_SIZE") /\ Defined("TX_PAYLOAD_MAX_SIZE"))
        => /\ macros["JSON_BUFFER_SIZE"].kind = "int"
           /\ macros["TX_PAYLOAD_MAX_SIZE"].kind = "int"
           /\ macros["JSON_BUFFER_SIZE"].num > 0
           /\ macros["TX_PAYLOAD_MAX_SIZE"].num > 0
           /\ macros["TX_PAYLOAD_MAX_SIZE"].num >= macros["JSON_BUFFER_SIZE"].num

\* Both capacities are defined and a module has read the larger one.
PayloadSizeLookedUp ==
    /\ Defined("JSON_BUFFER_SIZE")
    /\ last.name = "TX_PAYLOAD_MAX_SIZE"
    /\ last.result.kind = "int"
    /\ last.result.num > macros["JSON_BUFFER_SIZE"].num

\* C5: the reading interval is a positive integer and equals 5000.
ReadingIntervalIs5000 ==
    Defined("READING_INTERVAL_MS")
        => /\ macros["READING_INTERVAL_MS"].kind = "int"
           /\ macros["READING_INTERVAL_MS"].num > 0
           /\ macros["READING_INTERVAL_MS"].num = 5000

\* A module has read the reading interval.
ReadingIntervalLookedUp ==
    /\ HeaderDone
    /\ last.name = "READING_INTERVAL_MS"
    /\ last.result.kind = "int"

\* C6: the baud rate is a positive integer, a member of the standard
\* serial-rate set, and equals 115200.
BaudRateIsStandard ==
    Defined("BAUD_RATE")
        => /\ macros["BAUD_RATE"].kind = "int"
           /\ macros["BAUD_RATE"].num > 0
           /\ macros["BAUD_RATE"].num \in StandardBaudRates
           /\ macros["BAUD_RATE"].num = 115200

\* A module has read the baud rate.
BaudRateLookedUp ==
    /\ HeaderDone
    /\ last.name = "BAUD_RATE"
    /\ last.result.kind = "int"

\* C8: the table cannot fail: every lookup of one of the eight constants
\* yields the value the header defines it with, never the unexpanded
\* identifier, and changes nothing of the table.
LookupNeverFails ==
    [][(last' # last)
          => /\ last'.name \in ConstNames
             /\ last'.result.kind \in {"str", "int"}
             /\ last'.result = ConfigValue(last'.name)
             /\ macros' = macros
             /\ defcount' = defcount]_vars

\* A module has read the device identifier and got its string.
DeviceIdLookedUp ==
    /\ HeaderDone
    /\ last.name = "DEVICE_ID"
    /\ last.result = StrLit(DEVICE_ID)

\* C9: inclusion is idempotent: once the header has been processed, however
\* many further inclusions have started or finished, the table is the one
\* the first inclusion left and every name has been defined exactly once.
InclusionIsIdempotent ==
    incl >= 1 => /\ macros = once
                 /\ \A n \in ConstNames : Defined(n)
                 /\ \A n \in AllNames : defcount[n] = 1

\* A second inclusion is under way and the guard is skipping a definition.
SecondInclusionSkips ==
    /\ incl >= 1
    /\ pc > 0
    /\ skip
    /\ Header[pc].op = "define"
    /\ Header[pc].name \in ConstNames

\* C10: each identity string together with its terminating NUL fits in
\* JSON_BUFFER_SIZE bytes, hence also in TX_PAYLOAD_MAX_SIZE bytes.
IdentityFitsBuffers ==
    \A n \in IdentityNames :
        (Defined(n) /\ Defined("JSON_BUFFER_SIZE") /\ Defined("TX_PAYLOAD_MAX_SIZE"))
            => /\ macros[n].kind = "str"
               /\ Len(macros[n].chars) + 1 <= macros["JSON_BUFFER_SIZE"].num
               /\ Len(macros[n].chars) + 1 <= macros["TX_PAYLOAD_MAX_SIZE"].num

\* Both capacities are defined and a module has read the advertised name.
LocalNameLookedUp ==
    /\ Defined("JSON_BUFFER_SIZE")
    /\ Defined("TX_PAYLOAD_MAX_SIZE")
    /\ last.name = "BLE_LOCAL_NAME"
    /\ Len(last.result.chars) > 0

=============================================================================
